---- MODULE Spec2Model ----
(***************************************************************************)
(* Model of parthenon_utils.zipper.Zipper: create_backup and               *)
(* manage_compressed_files acting on a filesystem.                         *)
(*                                                                         *)
(* Strings that the code takes apart (paths, file names, suffixes, archive *)
(* member names, the timestamp) are sequences of one-character strings, so *)
(* that stem, suffix, parent, relative_to, startswith and the ".." test    *)
(* are computed as pathlib / str compute them.  Strings that the code only *)
(* compares (the action, exception names, file payloads) are TLA+ strings. *)
(***************************************************************************)
EXTENDS Integers, Sequences, FiniteSets, TLC

VARIABLES fs, clock, last, pre, prior, nops

vars == <<fs, clock, last, pre, prior, nops>>

(***************************************************************************)
(* Bounds of the model.                                                    *)
(***************************************************************************)
MaxOps == 2
MaxTicks == 1

(***************************************************************************)
(* str helpers.                                                            *)
(***************************************************************************)
SetMax(S) == CHOOSE x \in S : \A y \in S : y <= x

\* str.rfind(c), 1-based; 0 when c does not occur
RFind(s, c) ==
    LET I == {i \in 1..Len(s) : s[i] = c}
    IN  IF I = {} THEN 0 ELSE SetMax(I)

\* s.startswith(p)
StartsWith(s, p) == Len(p) <= Len(s) /\ SubSeq(s, 1, Len(p)) = p

\* p in s  (substring test)
Contains(s, p) ==
    \E i \in 1..(Len(s) - Len(p) + 1) : SubSeq(s, i, i + Len(p) - 1) = p

\* s.split(c)
RECURSIVE Split(_, _)
Split(s, c) ==
    LET I == {i \in 1..Len(s) : s[i] = c}
    IN  IF I = {} THEN <<s>>
        ELSE LET i == SetMax(I)
             IN  Append(Split(SubSeq(s, 1, i - 1), c), SubSeq(s, i + 1, Len(s)))

\* c.join(parts)
RECURSIVE Join(_, _)
Join(parts, c) ==
    IF parts = <<>> THEN <<>>
    ELSE IF Len(parts) = 1 THEN parts[1]
    ELSE parts[1] \o <<c>> \o Join(Tail(parts), c)

\* the elements of parts that are not in bad, in order
RECURSIVE DropParts(_, _)
DropParts(parts, bad) ==
    IF parts = <<>> THEN <<>>
    ELSE IF parts[1] \in bad THEN DropParts(Tail(parts), bad)
    ELSE <<parts[1]>> \o DropParts(Tail(parts), bad)

\* a fixed enumeration of a finite set
RECURSIVE SetToSeq(_)
SetToSeq(S) ==
    IF S = {} THEN <<>>
    ELSE LET x == CHOOSE x \in S : TRUE IN <<x>> \o SetToSeq(S \ {x})

(***************************************************************************)
(* pathlib.PurePosixPath                                                   *)
(***************************************************************************)
Root == <<"/">>
NoPath == <<>>          \* an argument left at its default None

\* Path.name: the final component
PathName(p) == IF p = Root THEN <<>> ELSE SubSeq(p, RFind(p, "/") + 1, Len(p))

\* Path.parent
PathParent(p) ==
    LET i == RFind(p, "/")
    IN  IF i <= 1 THEN Root ELSE SubSeq(p, 1, i - 1)

\* Path.suffix: name[i:] where i = name.rfind('.') and 0 < i < len(name) - 1
PathSuffix(p) ==
    LET name == PathName(p)
        j == RFind(name, ".")
    IN  IF 1 < j /\ j < Len(name) THEN SubSeq(name, j, Len(name)) ELSE <<>>

\* Path.stem
PathStem(p) ==
    LET name == PathName(p)
        j == RFind(name, ".")
    IN  IF 1 < j /\ j < Len(name) THEN SubSeq(name, 1, j - 1) ELSE name

\* Path.joinpath(name) for a relative name
JoinPath(p, name) ==
    IF name = <<>> THEN p
    ELSE IF p = Root THEN Root \o name
    ELSE p \o <<"/">> \o name

\* the prefix every path below base starts with
DirPrefix(base) == IF base = Root THEN Root ELSE base \o <<"/">>

IsUnder(p, base) == Len(p) > Len(DirPrefix(base)) /\ StartsWith(p, DirPrefix(base))

\* Path.relative_to(base) for a path below base
RelativeTo(p, base) == SubSeq(p, Len(DirPrefix(base)) + 1, Len(p))

\* the proper ancestors of p, the root included
Ancestors(p) ==
    {Root} \cup {SubSeq(p, 1, i - 1) : i \in {k \in 2..Len(p) : p[k] = "/"}}

(***************************************************************************)
(* The filesystem: a function from absolute paths to nodes.  An archive    *)
(* is a file whose payload is the sequence of its members; a member        *)
(* carries its name and the node stored under it.                          *)
(***************************************************************************)
DirNode == [kind |-> "dir", bytes |-> "", members |-> <<>>]
FileNode(b) == [kind |-> "file", bytes |-> b, members |-> <<>>]
ZipNode(ms) == [kind |-> "zip", bytes |-> "", members |-> ms]
TarNode(ms) == [kind |-> "tar", bytes |-> "", members |-> ms]
Member(n, node) == [name |-> n, node |-> node]

Exists(f, p) == p \in DOMAIN f
IsDir(f, p) == p \in DOMAIN f /\ f[p].kind = "dir"

\* everything below root, directories included (Path.rglob('*'))
RGlob(f, root) == IF IsDir(f, root) THEN {p \in DOMAIN f : IsUnder(p, root)} ELSE {}

\* the non-directory entries below root, by relative path
FileMap(f, root) ==
    LET F == {p \in RGlob(f, root) : f[p].kind # "dir"}
    IN  [r \in {RelativeTo(p, root) : p \in F} |-> f[JoinPath(root, r)]]

Put(f, p, node) == (p :> node) @@ f

Ok(f) == [fs |-> f, exc |-> "none"]
Raise(f, e) == [fs |-> f, exc |-> e]

(***************************************************************************)
(* zipfile, as the code uses it.                                           *)
(***************************************************************************)
\* open(file, 'w+b') of ZipFile(file, mode='w'): the file is created or truncated
ZipOpenW(f, file) ==
    IF ~IsDir(f, PathParent(file)) THEN
        Raise(f, IF Exists(f, PathParent(file)) THEN "NotADirectoryError"
                 ELSE "FileNotFoundError")
    ELSE IF IsDir(f, file) THEN Raise(f, "IsADirectoryError")
    ELSE Ok(Put(f, file, FileNode("")))

\* ZipFile(file, mode='a'): a missing file is created, the members of an existing
\* archive are kept, and an archive is started at the end of any other file
ZipOpenA(f, file) ==
    IF Exists(f, file) THEN
        IF IsDir(f, file) THEN Raise(f, "IsADirectoryError")
        ELSE IF f[file].kind = "zip" THEN Ok(f)
        ELSE Ok(Put(f, file, [kind |-> "zip", bytes |-> f[file].bytes, members |-> <<>>]))
    ELSE IF ~IsDir(f, PathParent(file)) THEN
        Raise(f, IF Exists(f, PathParent(file)) THEN "NotADirectoryError"
                 ELSE "FileNotFoundError")
    ELSE Ok(Put(f, file, ZipNode(<<>>)))

\* ZipFile(file, mode='r')
ZipOpenR(f, file) ==
    IF ~Exists(f, file) THEN Raise(f, "FileNotFoundError")
    ELSE IF IsDir(f, file) THEN Raise(f, "IsADirectoryError")
    ELSE IF f[file].kind # "zip" THEN Raise(f, "BadZipFile")
    ELSE Ok(f)

\* ZipInfo.from_file: leading separators are stripped, a directory gets a trailing '/'
RECURSIVE StripLeadingSep(_)
StripLeadingSep(s) ==
    IF s # <<>> /\ s[1] = "/" THEN StripLeadingSep(Tail(s)) ELSE s

ZipInfoName(arcname, isdir) ==
    StripLeadingSep(arcname) \o (IF isdir THEN <<"/">> ELSE <<>>)

\* ZipInfo.is_dir()
ZipInfoIsDir(m) == m.name # <<>> /\ m.name[Len(m.name)] = "/"

\* the members of the archive being written at path zip: the writes so far
\* followed by zipf.write(filename, arcname); members is the list written so far
ZipWrite(f, members, filename, arcname) ==
    IF ~Exists(f, filename) THEN [members |-> members, exc |-> "FileNotFoundError"]
    ELSE [members |-> Append(members,
                        Member(ZipInfoName(arcname, IsDir(f, filename)),
                               IF IsDir(f, filename) THEN DirNode ELSE f[filename])),
          exc |-> "none"]

\* ZipFile._extract_member: the name loses its empty, '.' and '..' components
ZipTargetPath(path, name) ==
    JoinPath(path, Join(DropParts(Split(name, "/"), {<<>>, <<".">>, <<".", ".">>}), "/"))

\* os.makedirs of the missing parents, then the directory or the file itself
ExtractTo(f, targetpath, node, isdir) ==
    LET A == Ancestors(targetpath) IN
    IF \E a \in A : Exists(f, a) /\ ~IsDir(f, a) THEN Raise(f, "NotADirectoryError")
    ELSE LET f1 == [a \in A \ DOMAIN f |-> DirNode] @@ f IN
         IF isdir THEN
            IF IsDir(f1, targetpath) THEN Ok(f1)
            ELSE IF Exists(f1, targetpath) THEN Raise(f1, "FileExistsError")
            ELSE Ok(Put(f1, targetpath, DirNode))
         ELSE IF IsDir(f1, targetpath) THEN Raise(f1, "IsADirectoryError")
         ELSE Ok(Put(f1, targetpath, node))

\* ZipFile.extractall(path, members): the members in order, until one fails
RECURSIVE ZipExtractAll(_, _, _)
ZipExtractAll(f, path, members) ==
    IF members = <<>> THEN Ok(f)
    ELSE LET m == members[1]
             r == ExtractTo(f, ZipTargetPath(path, m.name), m.node, ZipInfoIsDir(m))
         IN  IF r.exc # "none" THEN r ELSE ZipExtractAll(r.fs, path, Tail(members))

(***************************************************************************)
(* tarfile, as the code uses it.                                           *)
(***************************************************************************)
\* os.path.normpath of an absolute path
RECURSIVE NormParts(_, _)
NormParts(parts, acc) ==
    IF parts = <<>> THEN acc
    ELSE IF parts[1] \in {<<>>, <<".">>} THEN NormParts(Tail(parts), acc)
    ELSE IF parts[1] = <<".", ".">> THEN
        NormParts(Tail(parts), IF acc = <<>> THEN acc ELSE SubSeq(acc, 1, Len(acc) - 1))
    ELSE NormParts(Tail(parts), Append(acc, parts[1]))

NormPath(p) == Root \o Join(NormParts(Split(p, "/"), <<>>), "/")

\* os.path.join(path, member.name): an absolute name replaces path
TarTargetPath(path, name) ==
    IF StartsWith(name, <<"/">>) THEN NormPath(name)
    ELSE NormPath(path \o <<"/">> \o name)

\* tarfile.open(name, 'r:gz')
TarOpenR(f, name) ==
    IF ~Exists(f, name) THEN Raise(f, "FileNotFoundError")
    ELSE IF IsDir(f, name) THEN Raise(f, "IsADirectoryError")
    ELSE IF f[name].kind # "tar" THEN Raise(f, "ReadError")
    ELSE Ok(f)

\* TarFile.extractall(path, members): the members in order, until one fails
RECURSIVE TarExtractAll(_, _, _)
TarExtractAll(f, path, members) ==
    IF members = <<>> THEN Ok(f)
    ELSE LET m == members[1]
             r == ExtractTo(f, TarTargetPath(path, m.name), m.node, m.node.kind = "dir")
         IN  IF r.exc # "none" THEN r ELSE TarExtractAll(r.fs, path, Tail(members))

\* tarfile.open(destination, 'w:gz') and tar.add(source, arcname='.'): the tree
\* below source under names './...', the archive itself left out
TarCreate(f, source, destination) ==
    LET o == ZipOpenW(f, destination) IN
    IF o.exc # "none" THEN o
    ELSE IF ~Exists(o.fs, source) THEN
        Raise(Put(f, destination, TarNode(<<>>)), "FileNotFoundError")
    ELSE LET top == Member(<<".">>, IF IsDir(o.fs, source) THEN DirNode ELSE o.fs[source])
             below == SetToSeq(RGlob(o.fs, source) \ {destination})
             ms == [i \in 1..Len(below) |->
                      Member(<<".", "/">> \o RelativeTo(below[i], source), o.fs[below[i]])]
         IN  Ok(Put(f, destination, TarNode(<<top>> \o ms)))

(***************************************************************************)
(* shutil                                                                  *)
(***************************************************************************)
\* copytree(src, dst): dst must not exist; the whole tree is copied
CopyTree(f, src, dst) ==
    IF Exists(f, dst) THEN Raise(f, "FileExistsError")
    ELSE Ok([p \in {JoinPath(dst, RelativeTo(q, src)) : q \in RGlob(f, src)} |->
                f[JoinPath(src, RelativeTo(p, dst))]]
            @@ Put(f, dst, DirNode))

\* the file moved instead of copied
Copy2_move(f, src, dst) ==
    IF ~Exists(f, src) THEN Raise(f, "FileNotFoundError")
    ELSE Ok([p \in (DOMAIN f \ {src}) \cup {dst} |-> IF p = dst THEN f[src] ELSE f[p]])

\* copy2(src, dst): into dst when dst is a directory, else onto dst
Copy2(f, src, dst) ==
    LET to == IF IsDir(f, dst) THEN JoinPath(dst, PathName(src)) ELSE dst IN
    IF ~Exists(f, src) THEN Raise(f, "FileNotFoundError")
    ELSE IF IsDir(f, src) \/ IsDir(f, to) THEN Raise(f, "IsADirectoryError")
    ELSE Ok(Put(f, to, f[src]))

(***************************************************************************)
(* Zipper.manage_compressed_files                                          *)
(***************************************************************************)
Cwd == Root
DotZip == <<".", "z", "i", "p">>
DotTar == <<".", "t", "a", "r">>
DotTarGz == <<".", "t", "a", "r", ".", "g", "z">>

\* the check of the action left out
action_supported_any(action) == TRUE

\* action in ['create', 'extract', 'add']
action_supported(action) == action \in {"create", "extract", "add"}

\* the membership test that suffix.isin(values) stands for
suffix_isin_membership(suffix, values) == IF suffix \in values THEN "True" ELSE "False"

\* suffix.isin(values): suffix is a str, and str has no attribute isin, so the
\* attribute lookup raises AttributeError whatever the suffix and the values are
suffix_isin(suffix, values) == "AttributeError"

\* the entry named by the file's base name alone
zip_create_arcname_flat(file, source) == PathName(file)

\* arcname = file.relative_to(source)
zip_create_arcname(file, source) == RelativeTo(file, source)

\* the entry named by the file's whole path
zip_add_arcname_full(file) == RelativeTo(file, Root)

\* arcname = file.relative_to(Path(file).parent)
zip_add_arcname(file) == RelativeTo(file, PathParent(file))

\* safe_filter: the members whose name has no ".." in it and no leading '/'
safe_filter(members) ==
    SelectSeq(members,
              LAMBDA m : ~(Contains(m.name, <<".", ".">>) \/ StartsWith(m.name, <<"/">>)))

\* zip extraction through the filter of the tar branch
zip_extract_members_filtered(members) == safe_filter(members)

\* zipf.extractall(path = destination): no members argument, so all of them
zip_extract_members(members) == members

\* zipf.write(filename = files[i], arcname = arcs[i]) in order, until one raises
RECURSIVE ZipWriteEach(_, _, _, _)
ZipWriteEach(f, members, files, arcs) ==
    IF files = <<>> THEN [members |-> members, exc |-> "none"]
    ELSE LET w == ZipWrite(f, members, files[1], arcs[1])
         IN  IF w.exc # "none" THEN w
             ELSE ZipWriteEach(f, w.members, Tail(files), Tail(arcs))

\* action 'create', destination.suffix == '.zip': the archive is opened for
\* writing, then everything rglob finds below source is written to it
CreateZip(f, source, destination) ==
    LET o == ZipOpenW(f, destination) IN
    IF o.exc # "none" THEN o
    ELSE LET found == SetToSeq(RGlob(o.fs, source))
             arcs == [i \in 1..Len(found) |-> zip_create_arcname(found[i], source)]
             w == ZipWriteEach(o.fs, <<>>, found, arcs)
         IN  [fs |-> Put(o.fs, destination, ZipNode(w.members)), exc |-> w.exc]

\* action 'extract', source.suffix == '.zip'
ExtractZip(f, source, destination) ==
    LET o == ZipOpenR(f, source) IN
    IF o.exc # "none" THEN o
    ELSE ZipExtractAll(f, IF destination = NoPath THEN Cwd ELSE destination,
                       zip_extract_members(f[source].members))

\* action 'extract' of a tar archive, through safe_filter
ExtractTar(f, source, destination) ==
    LET o == TarOpenR(f, source) IN
    IF o.exc # "none" THEN o
    ELSE TarExtractAll(f, IF destination = NoPath THEN Cwd ELSE destination,
                       safe_filter(f[source].members))

\* action 'add', source.suffix == '.zip': the archive is opened for appending
AddZip(f, source, files) ==
    LET o == ZipOpenA(f, source) IN
    IF o.exc # "none" THEN o
    ELSE LET arcs == [i \in 1..Len(files) |-> zip_add_arcname(files[i])]
             w == ZipWriteEach(o.fs, o.fs[source].members, files, arcs)
         IN  [fs |-> Put(o.fs, source, [o.fs[source] EXCEPT !.members = w.members]),
              exc |-> w.exc]

\* action 'add' of a tar archive: tarfile.open refuses the mode 'a:gz'
AddTar(f, source, files) == Raise(f, "ValueError")

\* one of the three branches: path is the path whose suffix picks the format
Dispatch(f, path, zipBranch, tarBranch) ==
    IF path = NoPath THEN Raise(f, "AttributeError")
    ELSE IF PathSuffix(path) = DotZip THEN zipBranch
    ELSE LET t == suffix_isin(PathSuffix(path), {DotTarGz, DotTar}) IN
         IF t = "AttributeError" THEN Raise(f, "AttributeError")
         ELSE IF t = "True" THEN tarBranch
         ELSE Ok(f)

manage_compressed_files(f, action, source, destination, files) ==
    IF ~action_supported(action) THEN Raise(f, "ValueError")
    ELSE IF action = "create" THEN
        Dispatch(f, destination, CreateZip(f, source, destination),
                 TarCreate(f, source, destination))
    ELSE IF action = "extract" THEN
        Dispatch(f, source, ExtractZip(f, source, destination),
                 ExtractTar(f, source, destination))
    ELSE IF action = "add" THEN
        Dispatch(f, source, AddZip(f, source, files), AddTar(f, source, files))
    ELSE Ok(f)

(***************************************************************************)
(* Zipper.create_backup                                                    *)
(***************************************************************************)
Digit(d) == <<"0", "1", "2", "3", "4", "5", "6", "7", "8", "9">>[d + 1]

\* n in decimal, zero-padded to width digits
RECURSIVE Pad(_, _)
Pad(n, width) ==
    IF width = 0 THEN <<>> ELSE Pad(n \div 10, width - 1) \o <<Digit(n % 10)>>

\* datetime.strftime("%Y%m%d%H%M%S")
strftime(t) ==
    Pad(t.year, 4) \o Pad(t.month, 2) \o Pad(t.day, 2)
    \o Pad(t.hour, 2) \o Pad(t.minute, 2) \o Pad(t.second, 2)

NoFormat == <<>>        \* compress_format None (or the empty string): falsy

\* the existence check left out
target_exists_unchecked(f, target) == TRUE

\* target.exists()
target_exists(f, target) == Exists(f, target)

\* the whole name of the target in place of its stem
backup_name_from_name(target, timestamp, compress_format) ==
    PathName(target) \o <<"_">> \o timestamp
    \o (IF compress_format # NoFormat THEN <<".">> \o compress_format
        ELSE PathSuffix(target))

\* f"{target.stem}_{timestamp}" + (f".{compress_format}" if compress_format
\*                                 else target.suffix)
backup_name(target, timestamp, compress_format) ==
    PathStem(target) \o <<"_">> \o timestamp
    \o (IF compress_format # NoFormat THEN <<".">> \o compress_format
        ELSE PathSuffix(target))

\* target.parent.joinpath(backup_name)
backup_path(target, timestamp, compress_format) ==
    JoinPath(PathParent(target), backup_name(target, timestamp, compress_format))

\* the single-entry archive of a file target
BackupFileZip(f, target, path) ==
    LET o == ZipOpenW(f, path) IN
    IF o.exc # "none" THEN o
    ELSE LET w == ZipWrite(o.fs, <<>>, target, PathName(target))
         IN  [fs |-> Put(o.fs, path, ZipNode(w.members)), exc |-> w.exc]

create_backup(f, now, target, compress_format) ==
    IF ~target_exists(f, target) THEN
        [fs |-> f, exc |-> "FileNotFoundError", ret |-> NoPath]
    ELSE LET path == backup_path(target, strftime(now), compress_format)
             r == IF IsDir(f, target) THEN
                      IF compress_format # NoFormat
                      THEN manage_compressed_files(f, "create", target, path, <<>>)
                      ELSE CopyTree(f, target, path)
                  ELSE IF compress_format # NoFormat
                      THEN BackupFileZip(f, target, path)
                      ELSE Copy2(f, target, path)
         IN  [fs |-> r.fs, exc |-> r.exc,
              ret |-> IF r.exc = "none" THEN path ELSE NoPath]

(***************************************************************************)
(* The state machine.  fs is the filesystem and clock the wall clock; last *)
(* records the latest call with its outcome, pre the filesystem that call  *)
(* started from, and prior the zip 'create' call that came right before    *)
(* the latest call, with the files its source held.                        *)
(***************************************************************************)
DirT == <<"/", "t">>
DirA == <<"/", "t", "/", "a">>
FileF == <<"/", "t", "/", "a", "/", "f">>
FileG == <<"/", "t", "/", "g", ".", "t">>
FileH == <<"/", ".", "h">>
Missing == <<"/", "n", ".", "t">>
EvilZip == <<"/", "m", ".", "z", "i", "p">>
EvilTar == <<"/", "m", ".", "t", "a", "r">>
EvilTarGz == <<"/", "m", ".", "t", "a", "r", ".", "g", "z">>
OutZip == <<"/", "d", ".", "z", "i", "p">>
InZip == <<"/", "t", "/", "d", ".", "z", "i", "p">>
DirE == <<"/", "e">>

\* the members of a crafted archive: ../v and /w, and the well-named k and s/k
EvilMembers ==
    << Member(<<".", ".", "/", "v">>, FileNode("p")),
       Member(<<"/", "w">>, FileNode("q")),
       Member(<<"k">>, FileNode("r")),
       Member(<<"s", "/", "k">>, FileNode("u")) >>

InitFs ==
    (Root :> DirNode) @@ (DirT :> DirNode) @@ (DirA :> DirNode)
    @@ (FileF :> FileNode("x")) @@ (FileG :> FileNode("y")) @@ (FileH :> FileNode("z"))
    @@ (EvilZip :> ZipNode(EvilMembers)) @@ (EvilTar :> TarNode(EvilMembers))
    @@ (EvilTarGz :> TarNode(EvilMembers))

StartClock ==
    [year |-> 2024, month |-> 3, day |-> 18, hour |-> 11, minute |-> 59, second |-> 59]

SecondOfDay(t) == (t.hour * 60 + t.minute) * 60 + t.second

\* the clock one second later (within the day)
NextSecond(t) ==
    LET s == SecondOfDay(t) + 1
    IN  [t EXCEPT !.hour = s \div 3600, !.minute = (s \div 60) % 60, !.second = s % 60]

Targets == {DirT, FileG, FileH, Missing}
Formats == {NoFormat, <<"z", "i", "p">>, <<"t", "a", "r", ".", "g", "z">>, <<"r", "a", "r">>}

FileLists == {<<FileF>>, <<FileF, FileG>>, <<FileF, Missing>>}

\* the arguments manage_compressed_files is called with
ManageCalls ==
    [action : {"create"}, source : {DirT},
     destination : {OutZip, InZip, EvilTar, EvilTarGz, FileG}, files : {<<>>}]
    \cup [action : {"extract"}, source : {OutZip, InZip, EvilZip, EvilTar, EvilTarGz, FileG},
          destination : {DirE}, files : {<<>>}]
    \cup [action : {"add"}, source : {OutZip, EvilZip, EvilTar, EvilTarGz, FileG},
          destination : {NoPath}, files : FileLists]
    \cup [action : {"bogus"}, source : {DirT, EvilZip, EvilTar},
          destination : {NoPath, DirE, OutZip}, files : {<<>>, <<FileF>>}]

NoTree == [r \in {} |-> DirNode]
NoPrior == [valid |-> FALSE, source |-> NoPath, destination |-> NoPath, tree |-> NoTree]

NoCall ==
    [op |-> "none", action |-> "", source |-> NoPath, destination |-> NoPath,
     files |-> <<>>, target |-> NoPath, format |-> NoFormat, now |-> StartClock,
     exc |-> "none", ret |-> NoPath]

\* what the next call finds in prior: the latest call, when it was a zip 'create'
\* that returned
PriorOf(l, p) ==
    IF l.op = "manage" /\ l.action = "create" /\ l.exc = "none"
       /\ PathSuffix(l.destination) = DotZip
    THEN [valid |-> TRUE, source |-> l.source, destination |-> l.destination,
          tree |-> FileMap(p, l.source)]
    ELSE NoPrior

Init ==
    /\ fs = InitFs
    /\ clock = StartClock
    /\ last = NoCall
    /\ pre = InitFs
    /\ prior = NoPrior
    /\ nops = 0

\* a call of Zipper.create_backup(target, compress_format)
CallCreateBackup ==
    /\ nops < MaxOps
    /\ \E target \in Targets, format \in Formats :
         LET r == create_backup(fs, clock, target, format) IN
         /\ fs' = r.fs
         /\ last' = [NoCall EXCEPT !.op = "backup", !.target = target,
                                   !.format = format, !.now = clock,
                                   !.exc = r.exc, !.ret = r.ret]
    /\ pre' = fs
    /\ prior' = PriorOf(last, pre)
    /\ nops' = nops + 1
    /\ UNCHANGED clock

\* a call of Zipper.manage_compressed_files(action, source, destination, files)
CallManage ==
    /\ nops < MaxOps
    /\ \E c \in ManageCalls :
         LET r == manage_compressed_files(fs, c.action, c.source, c.destination, c.files) IN
         /\ fs' = r.fs
         /\ last' = [NoCall EXCEPT !.op = "manage", !.action = c.action,
                                   !.source = c.source, !.destination = c.destination,
                                   !.files = c.files, !.now = clock, !.exc = r.exc]
    /\ pre' = fs
    /\ prior' = PriorOf(last, pre)
    /\ nops' = nops + 1
    /\ UNCHANGED clock

\* the wall clock moves on by a second
Tick ==
    /\ SecondOfDay(clock) - SecondOfDay(StartClock) < MaxTicks
    /\ clock' = NextSecond(clock)
    /\ UNCHANGED <<fs, last, pre, prior, nops>>

Next == CallCreateBackup \/ CallManage \/ Tick

Spec == Init /\ [][Next]_vars

(***************************************************************************)
(* The claims.                                                             *)
(***************************************************************************)
EndsWith(s, p) == Len(p) <= Len(s) /\ SubSeq(s, Len(s) - Len(p) + 1, Len(s)) = p

IsBackupCall == last.op = "backup"
IsManageCall(action) == last.op = "manage" /\ last.action = action
Returned == last.exc = "none"

\* the path whose extension picks the archive format of the latest call
DispatchPath == IF last.action = "create" THEN last.destination ELSE last.source

HasTarExtension(p) == EndsWith(PathName(p), DotTar) \/ EndsWith(PathName(p), DotTarGz)

\* the entries the latest call created
Created == DOMAIN fs \ DOMAIN pre

\* the entries that existed before the latest call and are no longer what they were
Modified == {p \in DOMAIN pre : p \notin DOMAIN fs \/ fs[p] # pre[p]}

\* the created entries that are not inside another created entry
CreatedTop == {p \in Created : PathParent(p) \in DOMAIN pre}

\* p itself and everything below it
Subtree(f, p) == [q \in {r \in DOMAIN f : r = p \/ IsUnder(r, p)} |-> f[q]]

UnsafeName(n) == Contains(n, <<".", ".">>) \/ n[1] = "/"

\* C1: extracting a .tar / .tar.gz archive raises no error, writes no member whose
\* name contains ".." or starts with "/", and leaves in destination exactly the
\* remaining members.
C1_TarExtractSkipsUnsafe ==
    (IsManageCall("extract") /\ HasTarExtension(last.source)
     /\ Exists(pre, last.source) /\ pre[last.source].kind = "tar"
     /\ ~Exists(pre, last.destination))
    => LET ms == pre[last.source].members
           legit == {i \in 1..Len(ms) : ~UnsafeName(ms[i].name)}
       IN  /\ Returned
           /\ Modified = {}
           /\ \A i \in legit :
                /\ JoinPath(last.destination, ms[i].name) \in DOMAIN fs
                /\ fs[JoinPath(last.destination, ms[i].name)] = ms[i].node
           /\ \A p \in Created :
                \/ p = last.destination
                \/ \E i \in legit :
                     LET t == JoinPath(last.destination, ms[i].name)
                     IN  p = t \/ IsUnder(t, p)

\* C2: create_backup of a target that does not exist fails with FileNotFoundError,
\* whatever the compress_format, and leaves the filesystem as it was.
C2_MissingTargetFails ==
    (IsBackupCall /\ ~Exists(pre, last.target))
    => (last.exc = "FileNotFoundError" /\ last.ret = NoPath /\ fs = pre)

C2_Witness ==
    /\ IsBackupCall /\ last.target = Missing /\ last.format = <<"z", "i", "p">>
    /\ last.exc = "FileNotFoundError"

\* C3: an action other than 'create', 'extract' and 'add' fails with ValueError,
\* whatever the other arguments, and leaves the filesystem as it was.
C3_UnknownActionFails ==
    (last.op = "manage" /\ last.action \notin {"create", "extract", "add"})
    => (last.exc = "ValueError" /\ fs = pre)

C3_Witness ==
    /\ IsManageCall("bogus") /\ last.source = EvilZip /\ last.destination = DirE
    /\ last.exc = "ValueError" /\ ~Exists(fs, DirE)

\* the latest call extracted, into an empty or missing directory, the zip archive
\* that the call right before it created
RoundTripCase ==
    /\ IsManageCall("extract") /\ Returned
    /\ prior.valid /\ last.source = prior.destination
    /\ RGlob(pre, last.destination) = {}

\* C4 as stated: 'create' of a tree T into D.zip and then 'extract' of D.zip into an
\* empty E leaves in E the relative file paths of T with the same contents (T
\* taken as it was handed to 'create', or as it is afterwards).
C4_RoundTripAnyDestination ==
    RoundTripCase
    => \/ FileMap(fs, last.destination) = prior.tree
       \/ FileMap(fs, last.destination) = FileMap(fs, prior.source)

\* C4 as amended: the round trip reproduces the files of T when D.zip does not lie
\* inside T.
C4_RoundTripOutside ==
    (RoundTripCase /\ ~IsUnder(prior.destination, prior.source))
    => FileMap(fs, last.destination) = prior.tree

C4_Witness ==
    /\ RoundTripCase /\ prior.source = DirT /\ prior.destination = OutZip
    /\ <<"a", "/", "f">> \in DOMAIN FileMap(fs, DirE)
    /\ fs[<<"/", "e", "/", "a", "/", "f">>] = FileNode("x")
    /\ fs[<<"/", "e", "/", "g", ".", "t">>] = FileNode("y")

DigitValue(c) == CHOOSE d \in 0..9 : Digit(d) = c

\* the number a string of digits denotes
RECURSIVE NumberOf(_)
NumberOf(ds) ==
    IF ds = <<>> THEN 0
    ELSE 10 * NumberOf(SubSeq(ds, 1, Len(ds) - 1)) + DigitValue(ds[Len(ds)])

\* ts is the YYYYMMDDHHMMSS rendering of t: fourteen digits that read back as t
IsTimestampOf(ts, t) ==
    /\ Len(ts) = 14
    /\ \A i \in 1..14 : \E d \in 0..9 : ts[i] = Digit(d)
    /\ NumberOf(SubSeq(ts, 1, 4)) = t.year
    /\ NumberOf(SubSeq(ts, 5, 6)) = t.month
    /\ NumberOf(SubSeq(ts, 7, 8)) = t.day
    /\ NumberOf(SubSeq(ts, 9, 10)) = t.hour
    /\ NumberOf(SubSeq(ts, 11, 12)) = t.minute
    /\ NumberOf(SubSeq(ts, 13, 14)) = t.second

Noon == [StartClock EXCEPT !.hour = 12, !.minute = 0, !.second = 0]
NoonStamp == <<"2", "0", "2", "4", "0", "3", "1", "8", "1", "2", "0", "0", "0", "0">>

\* C5: the path create_backup returns is parent(target) / (stem + '_' + timestamp +
\* ext), the timestamp being the 14 digits of the clock and ext '.' + compress_format
\* when one is given and the target's suffix otherwise; g.t at 2024-03-18T12:00:00
\* gives g_20240318120000.t, and g_20240318120000.zip with compress_format 'zip'.
C5_BackupPathNaming ==
    (IsBackupCall /\ Returned)
    => LET name == PathName(last.ret)
           stem == PathStem(last.target)
           ext == IF last.format # NoFormat THEN <<".">> \o last.format
                  ELSE PathSuffix(last.target)
           n == Len(stem)
       IN  /\ PathParent(last.ret) = PathParent(last.target)
           /\ Len(name) = n + 15 + Len(ext)
           /\ SubSeq(name, 1, n) = stem
           /\ name[n + 1] = "_"
           /\ IsTimestampOf(SubSeq(name, n + 2, n + 15), last.now)
           /\ SubSeq(name, n + 16, Len(name)) = ext
           /\ (last.target = FileG /\ last.now = Noon /\ last.format = NoFormat)
              => last.ret = <<"/", "t", "/", "g", "_">> \o NoonStamp \o <<".", "t">>
           /\ (last.target = FileG /\ last.now = Noon /\ last.format = <<"z", "i", "p">>)
              => last.ret = <<"/", "t", "/", "g", "_">> \o NoonStamp \o DotZip
           /\ (last.target = FileH /\ last.now = Noon /\ last.format = NoFormat)
              => last.ret = <<"/", ".", "h", "_">> \o NoonStamp

C5_Witness ==
    /\ IsBackupCall /\ Returned /\ last.target = FileG /\ last.now = Noon
    /\ last.format = <<"z", "i", "p">>
    /\ last.ret = <<"/", "t", "/", "g", "_">> \o NoonStamp \o DotZip

\* C6: 'add' to an existing zip archive appends one entry per listed file, in order,
\* named by the file's base name with no directory in it, and keeps the entries the
\* archive had; 'create' names each file of the tree by its path below the root.
C6_AddFlattens ==
    /\ (IsManageCall("add") /\ Returned /\ PathSuffix(last.source) = DotZip
        /\ Exists(pre, last.source) /\ pre[last.source].kind = "zip")
       => LET old == pre[last.source].members
              new == fs[last.source].members
              k == Len(last.files)
          IN  /\ Len(new) = Len(old) + k
              /\ SubSeq(new, 1, Len(old)) = old
              /\ \A i \in 1..k :
                   /\ new[Len(old) + i].name = PathName(last.files[i])
                   /\ ~Contains(new[Len(old) + i].name, <<"/">>)
                   /\ new[Len(old) + i].node = pre[last.files[i]]
    /\ (IsManageCall("create") /\ Returned /\ PathSuffix(last.destination) = DotZip)
       => \A p \in RGlob(pre, last.source) :
            (pre[p].kind # "dir" /\ p # last.destination)
            => \E i \in 1..Len(fs[last.destination].members) :
                 LET m == fs[last.destination].members[i]
                 IN  JoinPath(last.source, m.name) = p /\ m.node = pre[p]

C6_Witness ==
    /\ IsManageCall("add") /\ Returned /\ last.source = EvilZip
    /\ last.files = <<FileF, FileG>>
    /\ Len(fs[EvilZip].members) = Len(EvilMembers) + 2
    /\ fs[EvilZip].members[Len(EvilMembers) + 1] = Member(<<"f">>, FileNode("x"))

\* C7 as stated: every create_backup call that returns has added exactly one new
\* filesystem entry (a file or a directory tree) and left its target as it was.
C7_ExactlyOneNewEntry ==
    (IsBackupCall /\ Returned)
    => /\ Cardinality(CreatedTop) = 1
       /\ Subtree(fs, last.target) = Subtree(pre, last.target)

\* C7 as amended: the call adds exactly one new entry, at the returned path, when
\* nothing was there; when a file was there (the backup of a call within the same
\* second) it is overwritten and no entry is added; nothing else is modified and
\* the target is as it was.
C7_OneEntryOrOverwrite ==
    (IsBackupCall /\ Returned)
    => /\ ~Exists(pre, last.ret) => (CreatedTop = {last.ret} /\ Modified = {})
       /\ (Exists(pre, last.ret) /\ ~IsDir(pre, last.ret))
          => (Created = {} /\ Modified \subseteq {last.ret})
       /\ \A p \in Created : p = last.ret \/ IsUnder(p, last.ret)
       /\ Subtree(fs, last.target) = Subtree(pre, last.target)

C7_Witness ==
    /\ IsBackupCall /\ Returned /\ last.target = FileG
    /\ Exists(pre, last.ret) /\ Created = {}
    /\ fs[last.ret] = fs[FileG]

\* C8: with a dispatching path whose extension is neither .zip nor .tar / .tar.gz,
\* each of the three actions returns without an error and changes nothing.
C8_OtherExtensionIsNoOp ==
    (last.op = "manage" /\ last.action \in {"create", "extract", "add"}
     /\ DispatchPath # NoPath
     /\ PathSuffix(DispatchPath) # DotZip /\ ~HasTarExtension(DispatchPath))
    => (Returned /\ fs = pre)

\* C9: 'extract' of a .zip archive extracts every entry into destination; none is
\* skipped for a name that contains ".." or starts with "/".
C9_ZipExtractsEveryMember ==
    (IsManageCall("extract") /\ Returned /\ PathSuffix(last.source) = DotZip)
    => LET ms == pre[last.source].members IN
       /\ \A i \in 1..Len(ms) :
            LET t == ZipTargetPath(last.destination, ms[i].name) IN
            /\ t \in DOMAIN fs
            /\ IsUnder(t, last.destination)
            /\ ~ZipInfoIsDir(ms[i])
               => \E j \in i..Len(ms) :
                    /\ ZipTargetPath(last.destination, ms[j].name) = t
                    /\ fs[t] = ms[j].node
       /\ \A p \in Created : p = last.destination \/ IsUnder(p, last.destination)
       /\ last.source = EvilZip
          => /\ fs[<<"/", "e", "/", "v">>] = FileNode("p")
             /\ fs[<<"/", "e", "/", "w">>] = FileNode("q")
             /\ fs[<<"/", "e", "/", "k">>] = FileNode("r")
             /\ fs[<<"/", "e", "/", "s", "/", "k">>] = FileNode("u")

C9_Witness ==
    /\ IsManageCall("extract") /\ Returned /\ last.source = EvilZip
    /\ \E i \in 1..Len(pre[EvilZip].members) : UnsafeName(pre[EvilZip].members[i].name)
    /\ fs[<<"/", "e", "/", "v">>] = FileNode("p")

\* C10: whenever create_backup returns, an entry exists at the path it returns.
C10_ReturnedBackupExists ==
    (IsBackupCall /\ Returned) => (last.ret # NoPath /\ Exists(fs, last.ret))

C10_Witness ==
    /\ IsBackupCall /\ Returned /\ last.target = FileG /\ last.format = <<"r", "a", "r">>
    /\ Exists(fs, last.ret) /\ fs[last.ret].kind = "zip"

====
